---- MODULE Spec2Model ----
(***************************************************************************)
(* Model of the suave slot-attribute pipeline of op-geth:                  *)
(*   - OpBeaconClient.SubscribeToPayloadAttributesEvents (suave/beacon.go) *)
(*   - SuaveAPI.Start / Stop / OnPayloadAttribute / BuildEthBlock /        *)
(*     BuildEthBlockFromBundles (suave api)                                *)
(* and of its bundle types:                                                *)
(*   - SBundle.Hash, GetRefundConfig                                       *)
(*   - SBundleFromSuave.MarshalJSON / UnmarshalJSON                        *)
(* A Go pointer is modelled as a sequence of length 0 (nil) or 1.          *)
(***************************************************************************)
EXTENDS Integers, Sequences, FiniteSets, TLC

\* ------------------------------------------------------------------ bounds
MaxSlot == 2
MaxEvents == 2
MaxAccepts == 1
MaxBuilds == 1
MaxFails == 3

\* ------------------------------------------------------------------ values
NilPtr == << >>
Ptr(v) == << v >>
IsNil(p) == Len(p) = 0
Deref(p) == p[1]

ZeroHash == "0x0"
Hashes == {"H1", "H2"}
BeaconRoots == {NilPtr, Ptr("R1")}
Slots == 0 .. MaxSlot

\* types.BuilderPayloadAttributes; the zero value is what NewSuaveAPI leaves
\* in api.slotAttrs.
ZeroAttrs ==
    [ Timestamp |-> 0, Random |-> 0, SuggestedFeeRecipient |-> 0, Slot |-> 0,
      HeadHash |-> ZeroHash, Withdrawals |-> << >>,
      ParentBeaconBlockRoot |-> NilPtr, Transactions |-> << >>, GasLimit |-> 0 ]

\* The record an upstream node announces for slot s on head h with beacon
\* root pointer r; the remaining fields are numbered after the slot so that
\* the records of different slots differ in every field.
BuilderPayloadAttributes(s, h, r) ==
    [ Timestamp |-> 100 + s, Random |-> 200 + s,
      SuggestedFeeRecipient |-> 300 + s, Slot |-> s, HeadHash |-> h,
      Withdrawals |-> << 500 + s >>, ParentBeaconBlockRoot |-> r,
      Transactions |-> << 600 + s >>, GasLimit |-> 400 + s ]

AllAttrs ==
    { BuilderPayloadAttributes(s, h, r) : s \in Slots, h \in Hashes, r \in BeaconRoots }

\* ------------------------------------------------------ event wire format
\* A JSON value is [kind, v]; a hex quantity is its sequence of hex digits.
JsonNumber(n) == [kind |-> "number", v |-> n]
JsonString(n) == [kind |-> "string", v |-> n]

RECURSIVE HexValue(_)
HexValue(digits) ==
    IF digits = << >> THEN 0
    ELSE 16 * HexValue(SubSeq(digits, 1, Len(digits) - 1)) + digits[Len(digits)]

HexDigits(n) == << n \div 16, n % 16 >>

\* The payload_attributes event whose "slot" key holds the JSON value slot.
PayloadAttributesEvent(slot, s, h, r) ==
    [ timestamp |-> HexDigits(100 + s), prevRandao |-> 200 + s,
      suggestedFeeRecipient |-> 300 + s, slot |-> slot, blockHash |-> h,
      withdrawals |-> << 500 + s >>,
      parentBeaconBlockRoot |-> IF IsNil(r) THEN "null" ELSE Deref(r),
      transactions |-> << 600 + s >>, gasLimit |-> 400 + s ]

WellFormedEvents ==
    { PayloadAttributesEvent(JsonNumber(s), s, h, r) :
        s \in Slots, h \in Hashes, r \in BeaconRoots }

\* An event whose "slot" is a JSON string: json.Unmarshal reports a type
\* error for a uint64 field.
MalformedEvents == { PayloadAttributesEvent(JsonString(1), 1, "H1", Ptr("R1")) }

Events == WellFormedEvents \cup MalformedEvents

\* json.Unmarshal(msg.Data, data) into a new BuilderPayloadAttributes: the
\* keys are mapped to the tagged fields, null leaves the pointer nil, and a
\* JSON value of the wrong type leaves its field zero and is the error.
Unmarshal(raw) ==
    [ err |-> raw.slot.kind # "number",
      data |->
        [ Timestamp |-> HexValue(raw.timestamp),
          Random |-> raw.prevRandao,
          SuggestedFeeRecipient |-> raw.suggestedFeeRecipient,
          Slot |-> IF raw.slot.kind = "number" THEN raw.slot.v ELSE 0,
          HeadHash |-> raw.blockHash,
          Withdrawals |-> raw.withdrawals,
          ParentBeaconBlockRoot |->
            IF raw.parentBeaconBlockRoot = "null" THEN NilPtr
            ELSE Ptr(raw.parentBeaconBlockRoot),
          Transactions |-> raw.transactions,
          GasLimit |-> raw.gasLimit ] ]

\* ------------------------------------------------------------- build args
\* types.BuildBlockArgs as the build operations fill it.
ZeroArgs ==
    [ Slot |-> 0, Parent |-> ZeroHash, Timestamp |-> 0, FeeRecipient |-> 0,
      GasLimit |-> 0, Random |-> 0, Withdrawals |-> << >>,
      BeaconRoot |-> ZeroHash, FillPending |-> FALSE, Transactions |-> << >> ]

\* The argument structs a caller may pass: every field differs from what any
\* event carries; the pointer itself may be nil.
CallerStruct(fp) ==
    [ Slot |-> 900, Parent |-> "Hc", Timestamp |-> 901, FeeRecipient |-> 902,
      GasLimit |-> 903, Random |-> 904, Withdrawals |-> << 905 >>,
      BeaconRoot |-> "Rc", FillPending |-> fp, Transactions |-> << 906 >> ]

CallerArgs == { NilPtr } \cup { Ptr(CallerStruct(fp)) : fp \in BOOLEAN }

\* ---------------------------------------------------------------- errors
NoErr == "nil"
ErrUnknownParent == "could not find parent block with hash"
ErrNilDeref == "invalid memory address or nil pointer dereference"
BackendErrors == {"backend error 1", "backend error 2"}

\* What the external backend build operations may return: (block, profit, err).
BackendOutcomes ==
    { [block |-> "block", profit |-> 7, err |-> NoErr] } \cup
    { [block |-> "nil", profit |-> 0, err |-> e] : e \in BackendErrors }

NoResult == [kind |-> "none", err |-> NoErr, block |-> "nil", profit |-> 0]
NoOutcome == [block |-> "nil", profit |-> 0, err |-> NoErr]

\* ------------------------------------------------------------ bundle types
MaxElems == 3
MaxTasks == 2

Tasks == 1 .. MaxTasks

\* Transactions, by number. signer.Sender recovers no sender from the
\* signature of transaction 3.
TxIds == {1, 2, 3}
ErrInvalidSig == "invalid transaction v, r, s values"
ErrIncorrectRefundConfig == "incorrect refund config"

\* signer.Sender(tx): (address, err).
Sender(tx) ==
    CASE tx = 1 -> [address |-> "A1", err |-> NoErr]
      [] tx = 2 -> [address |-> "A2", err |-> NoErr]
      [] OTHER  -> [address |-> "A0", err |-> ErrInvalidSig]

\* A common.Hash is a sequence of numbers that states its own length, so that
\* a concatenation of hashes is read back in one way only (as one of 32-byte
\* hashes is).
HashZero == << 0 >>
TxHash(tx) == << 1, tx >>

\* sha3.NewLegacyKeccak256 over data: collision free.
LegacyKeccak256(data) == << 2, Len(data) >> \o data

\* hasher.Write(h[:]) for each h of hashes, in order: the bytes written.
RECURSIVE HasherWrite(_)
HasherWrite(hashes) ==
    IF hashes = << >> THEN << >>
    ELSE Head(hashes) \o HasherWrite(Tail(hashes))

\* types.SBundle with Validity.RefundConfig cfg and an empty hash cache.
SBundle(body, cfg) == [Body |-> body, RefundConfig |-> cfg, hash |-> NilPtr]

\* types.BundleBody wrapping a transaction, a nested bundle, or nothing.
TxBody(tx) == [Tx |-> Ptr(tx), Bundle |-> NilPtr]
BundleBody(b) == [Tx |-> NilPtr, Bundle |-> Ptr(b)]
EmptyBody == [Tx |-> NilPtr, Bundle |-> NilPtr]

SimpleBodies == { TxBody(tx) : tx \in TxIds } \cup { EmptyBody }

\* Validity.RefundConfig: none, or an explicit one.
RefundConfigs == { << >>, << [Address |-> "A9", Percent |-> 50] >> }

\* The bodies with k elements in all, the elements of nested bundles
\* counted, and the elements that count for s.
RECURSIVE Bodies(_), BodiesOf(_)
BodiesOf(s) ==
    (IF s = 1 THEN SimpleBodies ELSE {}) \cup
    { BundleBody(SBundle(b, c)) : b \in Bodies(s - 1), c \in RefundConfigs }

Bodies(k) ==
    IF k = 0 THEN { << >> }
    ELSE UNION { { << e >> \o rest : e \in BodiesOf(s), rest \in Bodies(k - s) } :
                 s \in 1 .. k }

\* Every bundle of at most MaxElems elements, nested to any depth.
Bundles ==
    UNION { { SBundle(b, c) : b \in Bodies(k), c \in RefundConfigs } :
            k \in 0 .. MaxElems }

\* The bodies the tasks that hash concurrently give their shared bundle.
SharedBodies ==
    { << >>,
      << TxBody(1) >>,
      << TxBody(1), TxBody(2) >>,
      << TxBody(2), TxBody(1) >>,
      << BundleBody(SBundle(<< TxBody(2), TxBody(1) >>, << >>)), TxBody(3) >> }

RECURSIVE Hash(_), BodyHashes(_), ComputeHash(_)

\* Mutant: a load that never finds a cached hash.
LoadHashNothing(b) == NilPtr

\* b.hash.Load(): the cached hash, or nil.
LoadHash(b) == b.hash

\* Mutant: a computation that digests also a body of one element.
ComputeHashAlwaysDigest(b) ==
    LET r == BodyHashes(b.Body)
    IN  [h |-> LegacyKeccak256(HasherWrite(r.hashes)),
         b |-> [b EXCEPT !.Body = r.body]]

\* Mutant: a Hash that caches h but returns its digest when it has computed.
HashReturnsOther(b) ==
    IF ~IsNil(LoadHash(b)) THEN [h |-> Deref(LoadHash(b)), b |-> b]
    ELSE LET c == ComputeHash(b)
         IN  [h |-> LegacyKeccak256(c.h), b |-> [c.b EXCEPT !.hash = Ptr(c.h)]]

\* The loop over b.Body: bodyHashes, and the body with the caches the nested
\* Hash calls filled. An element wrapping nothing leaves its entry zero.
BodyHashes(body) ==
    IF body = << >> THEN [hashes |-> << >>, body |-> << >>]
    ELSE LET e == Head(body)
             c == Hash(Deref(e.Bundle))
             r == IF ~IsNil(e.Tx) THEN [h |-> TxHash(Deref(e.Tx)), e |-> e]
                  ELSE IF ~IsNil(e.Bundle)
                       THEN [h |-> c.h, e |-> [e EXCEPT !.Bundle = Ptr(c.b)]]
                       ELSE [h |-> HashZero, e |-> e]
             rest == BodyHashes(Tail(body))
         IN  [hashes |-> << r.h >> \o rest.hashes, body |-> << r.e >> \o rest.body]

\* Hash after its load found nothing: h as computed from the body, and the
\* bundle with the nested caches filled (its own not yet stored).
ComputeHash(b) ==
    LET r == BodyHashes(b.Body)
    IN  [h |-> IF Len(r.hashes) = 1 THEN r.hashes[1]
               ELSE LegacyKeccak256(HasherWrite(r.hashes)),
         b |-> [b EXCEPT !.Body = r.body]]

\* SBundle.Hash on b, a call that runs alone: the hash returned and the
\* bundle as the call leaves it, the caches it filled included.
Hash(b) ==
    IF ~IsNil(LoadHash(b)) THEN [h |-> Deref(LoadHash(b)), b |-> b]
    ELSE LET c == ComputeHash(b)
         IN  [h |-> c.h, b |-> [c.b EXCEPT !.hash = Ptr(c.h)]]

\* Mutant: a resolution that follows the last element of a nested bundle.
RECURSIVE GetRefundConfigLast(_)
GetRefundConfigLast(body) ==
    IF ~IsNil(body.Tx)
    THEN LET s == Sender(Deref(body.Tx))
         IN  IF s.err # NoErr THEN [cfg |-> << >>, err |-> s.err]
             ELSE [cfg |-> << [Address |-> s.address, Percent |-> 100] >>,
                   err |-> NoErr]
    ELSE IF ~IsNil(body.Bundle)
         THEN LET b == Deref(body.Bundle)
              IN  IF Len(b.RefundConfig) > 0
                  THEN [cfg |-> b.RefundConfig, err |-> NoErr]
                  ELSE IF Len(b.Body) = 0
                       THEN [cfg |-> << >>, err |-> ErrIncorrectRefundConfig]
                       ELSE GetRefundConfigLast(b.Body[Len(b.Body)])
         ELSE [cfg |-> << >>, err |-> ErrIncorrectRefundConfig]

\* Mutant: a resolution for which an empty bundle without a configuration
\* has the empty configuration.
RECURSIVE GetRefundConfigLenient(_)
GetRefundConfigLenient(body) ==
    IF ~IsNil(body.Tx)
    THEN LET s == Sender(Deref(body.Tx))
         IN  IF s.err # NoErr THEN [cfg |-> << >>, err |-> s.err]
             ELSE [cfg |-> << [Address |-> s.address, Percent |-> 100] >>,
                   err |-> NoErr]
    ELSE IF ~IsNil(body.Bundle)
         THEN LET b == Deref(body.Bundle)
              IN  IF Len(b.RefundConfig) > 0
                  THEN [cfg |-> b.RefundConfig, err |-> NoErr]
                  ELSE IF Len(b.Body) = 0
                       THEN [cfg |-> << >>, err |-> NoErr]
                       ELSE GetRefundConfigLenient(b.Body[1])
         ELSE [cfg |-> << >>, err |-> ErrIncorrectRefundConfig]

\* GetRefundConfig(body, signer): (the configuration, err); a nil slice is
\* the empty sequence.
RECURSIVE GetRefundConfig(_)
GetRefundConfig(body) ==
    IF ~IsNil(body.Tx)
    THEN LET s == Sender(Deref(body.Tx))
         IN  IF s.err # NoErr THEN [cfg |-> << >>, err |-> s.err]
             ELSE [cfg |-> << [Address |-> s.address, Percent |-> 100] >>,
                   err |-> NoErr]
    ELSE IF ~IsNil(body.Bundle)
         THEN LET b == Deref(body.Bundle)
              IN  IF Len(b.RefundConfig) > 0
                  THEN [cfg |-> b.RefundConfig, err |-> NoErr]
                  ELSE IF Len(b.Body) = 0
                       THEN [cfg |-> << >>, err |-> ErrIncorrectRefundConfig]
                       ELSE GetRefundConfig(b.Body[1])
         ELSE [cfg |-> << >>, err |-> ErrIncorrectRefundConfig]

NoRefund == [cfg |-> << >>, err |-> NoErr]

\* ------------------------------------------------------ bundle wire format
\* The values of the optional fields of an SBundleFromSuave (nil or set).
OptBig == { NilPtr, Ptr(0), Ptr(18) }
OptPercent == { NilPtr, Ptr(0), Ptr(50) }
TxLists == { << >>, << 1 >>, << 2, 1 >> }
HashLists == { << >>, << TxHash(1) >> }

SBundlesFromSuave ==
    [ BlockNumber : OptBig, MaxBlock : OptBig, Txs : TxLists,
      RevertingHashes : HashLists, RefundPercent : OptPercent ]

\* tx.MarshalBinary(): the type byte, then the payload.
MarshalBinary(tx) == << 2, tx >>

\* tx.UnmarshalBinary(txBytes).
UnmarshalBinary(txBytes) ==
    IF Len(txBytes) = 2 /\ txBytes[1] = 2
    THEN [err |-> FALSE, tx |-> txBytes[2]]
    ELSE [err |-> TRUE, tx |-> 0]

\* json.Marshal(&RpcSBundle{...}): an omitempty key is absent (nil here)
\* when its pointer is nil or its slice is empty; a hexutil.Big is written
\* as its hex digits.
JsonMarshalRpcSBundle(rpc) ==
    [ blockNumber |-> IF IsNil(rpc.BlockNumber) THEN NilPtr
                      ELSE Ptr(HexDigits(Deref(rpc.BlockNumber))),
      maxBlock |-> IF IsNil(rpc.MaxBlock) THEN NilPtr
                   ELSE Ptr(HexDigits(Deref(rpc.MaxBlock))),
      txs |-> rpc.Txs,
      revertingHashes |-> IF Len(rpc.RevertingHashes) = 0 THEN NilPtr
                          ELSE Ptr(rpc.RevertingHashes),
      percent |-> rpc.RefundPercent ]

\* json.Unmarshal(data, &rpcSBundle): an absent key leaves its field nil.
JsonUnmarshalRpcSBundle(data) ==
    [ BlockNumber |-> IF IsNil(data.blockNumber) THEN NilPtr
                      ELSE Ptr(HexValue(Deref(data.blockNumber))),
      MaxBlock |-> IF IsNil(data.maxBlock) THEN NilPtr
                   ELSE Ptr(HexValue(Deref(data.maxBlock))),
      Txs |-> data.txs,
      RevertingHashes |-> IF IsNil(data.revertingHashes) THEN << >>
                          ELSE Deref(data.revertingHashes),
      RefundPercent |-> data.percent ]

\* SBundleFromSuave.MarshalJSON: the RpcSBundle literal names BlockNumber,
\* Txs, RevertingHashes and RefundPercent; its MaxBlock stays nil.
MarshalJSON(s) ==
    JsonMarshalRpcSBundle(
        [ BlockNumber |-> s.BlockNumber,
          MaxBlock |-> NilPtr,
          Txs |-> [ i \in 1 .. Len(s.Txs) |-> MarshalBinary(s.Txs[i]) ],
          RevertingHashes |-> s.RevertingHashes,
          RefundPercent |-> s.RefundPercent ])

\* SBundleFromSuave.UnmarshalJSON(data) on a new value: err, and the value.
UnmarshalJSON(data) ==
    LET rpcSBundle == JsonUnmarshalRpcSBundle(data)
        txs == [ i \in 1 .. Len(rpcSBundle.Txs) |->
                    UnmarshalBinary(rpcSBundle.Txs[i]) ]
    IN  [ err |-> \E i \in 1 .. Len(txs) : txs[i].err,
          s |-> [ BlockNumber |-> rpcSBundle.BlockNumber,
                  MaxBlock |-> rpcSBundle.MaxBlock,
                  Txs |-> [ i \in 1 .. Len(txs) |-> txs[i].tx ],
                  RevertingHashes |-> rpcSBundle.RevertingHashes,
                  RefundPercent |-> rpcSBundle.RefundPercent ] ]

\* ------------------------------------------------------------------ state
VARIABLES
    chain,          \* hashes api.b.BlockChain().GetBlockByHash finds
    slotAttrs,      \* api.slotAttrs
    stopClosed,     \* api.stop has been closed
    ctxCancelled,   \* opbc.ctx is cancelled
    pcDisp,         \* the dispatch goroutine of Start: idle, select, exited
    currentSlot,    \* its local currentSlot
    pcSub,          \* the subscription goroutine: idle, loop, subscribed, send, sleep
    msg,            \* the latest event given to the handler, until it is received (pointer)
    payloadAttrC,   \* the unbuffered channel: the value a blocked sender offers
    fails,          \* consecutive failed subscribe attempts before now
    nEvents,        \* events received so far
    dropped,        \* an event was dropped on the current connection
    sent,           \* log (pointer, nil: none kept): the records the handler sent, in order
    taken,          \* log (pointer): the records the dispatch loop received, in order
    acceptErr,      \* what the latest OnPayloadAttribute call returned
    rpcAttrs,       \* the argument of an OnPayloadAttribute RPC being served (pointer)
    nAccepts,       \* OnPayloadAttribute calls made over RPC so far
    pcB,            \* the build request: idle, read, call, done
    kind,           \* which build operation: txs, bundles
    field,          \* the next line of the BuildBlockArgs literal to evaluate
    callerArgs,     \* the caller's buildArgs pointer
    buildArgs,      \* the BuildBlockArgs being built
    dirty,          \* api.slotAttrs has changed since the request began
    startedEmpty,   \* the request started before any record was accepted
    backendCalls,   \* backend build calls made for the request
    backendOut,     \* what the backend returned to the request
    result,         \* what the request returned
    nBuilds,        \* build requests made so far
    bundle,         \* the SBundle the tasks share (its hash fields are the caches)
    pcH,            \* per task, its Hash call: idle, compute, store, stored, hit
    hLocal,         \* per task, the local h of its Hash call
    ret,            \* per task, what its latest Hash call returned (pointer)
    refundArg,      \* the body given to the latest GetRefundConfig call (pointer)
    refundOut,      \* what that call returned
    pcW,            \* the wire round trip: idle, encoded, decoded
    sbundle,        \* the SBundleFromSuave to encode
    wire,           \* the JSON object MarshalJSON produced
    decoded         \* the SBundleFromSuave UnmarshalJSON filled

pipeVars == << stopClosed, ctxCancelled, pcDisp, currentSlot, pcSub, msg,
               payloadAttrC, fails, nEvents, dropped, sent, taken >>
storeVars == << chain, slotAttrs, acceptErr, rpcAttrs, nAccepts >>
buildVars == << pcB, kind, field, callerArgs, buildArgs, dirty, startedEmpty,
                backendCalls, backendOut, result, nBuilds >>
bundleVars == << bundle, pcH, hLocal, ret, refundArg, refundOut, pcW, sbundle,
                 wire, decoded >>
suaveVars == << pipeVars, storeVars, buildVars >>
vars == << suaveVars, bundleVars >>

\* The state NewSuaveAPI and NewOpBeaconClient leave.
InitSuave ==
    /\ chain = {"H1"}
    /\ slotAttrs = ZeroAttrs
    /\ stopClosed = FALSE
    /\ ctxCancelled = FALSE
    /\ pcDisp = "idle"
    /\ currentSlot = 0
    /\ pcSub = "idle"
    /\ msg = NilPtr
    /\ payloadAttrC = << >>
    /\ fails = 0
    /\ nEvents = 0
    /\ dropped = FALSE
    /\ acceptErr = NoErr
    /\ rpcAttrs = NilPtr
    /\ nAccepts = 0
    /\ pcB = "idle"
    /\ kind = "none"
    /\ field = 0
    /\ callerArgs = NilPtr
    /\ buildArgs = ZeroArgs
    /\ dirty = FALSE
    /\ startedEmpty = FALSE
    /\ backendCalls = 0
    /\ backendOut = NoOutcome
    /\ result = NoResult
    /\ nBuilds = 0

\* No Hash or GetRefundConfig call made yet, on the bundle b.
InitBundle(b) ==
    /\ bundle = b
    /\ pcH = [t \in Tasks |-> "idle"]
    /\ hLocal = [t \in Tasks |-> HashZero]
    /\ ret = [t \in Tasks |-> NilPtr]
    /\ refundArg = NilPtr
    /\ refundOut = NoRefund

\* No round trip begun, on the SBundleFromSuave s.
InitWire(s) ==
    /\ pcW = "idle"
    /\ sbundle = s
    /\ wire = NilPtr
    /\ decoded = NilPtr

ZeroSBundleFromSuave ==
    [ BlockNumber |-> NilPtr, MaxBlock |-> NilPtr, Txs |-> << >>,
      RevertingHashes |-> << >>, RefundPercent |-> NilPtr ]

\* No log of the channel's traffic is kept; one is kept, empty so far.
NoLog == sent = NilPtr /\ taken = NilPtr
EmptyLog == sent = Ptr(<< >>) /\ taken = Ptr(<< >>)

Init ==
    /\ InitSuave
    /\ NoLog
    /\ InitBundle(SBundle(<< >>, << >>))
    /\ InitWire(ZeroSBundleFromSuave)

\* ------------------------------------------------------------------ store
\* Mutant: OnPayloadAttribute discarding a candidate that is not newer than
\* the current record.
OnPayloadAttributeSlotChecked(attrs, ch, cur) ==
    IF attrs.Slot <= cur.Slot
    THEN [err |-> NoErr, slotAttrs |-> cur]
    ELSE IF attrs.HeadHash \notin ch
         THEN [err |-> ErrUnknownParent, slotAttrs |-> cur]
         ELSE [err |-> NoErr, slotAttrs |-> attrs]

\* Mutant: OnPayloadAttribute storing the candidate before it reports an
\* unknown parent.
OnPayloadAttributeStoreFirst(attrs, ch, cur) ==
    [err |-> IF attrs.HeadHash \notin ch THEN ErrUnknownParent ELSE NoErr,
     slotAttrs |-> attrs]

\* SuaveAPI.OnPayloadAttribute on candidate attrs, with ch the known hashes
\* and cur the current record: the error returned and the record left.
OnPayloadAttribute(attrs, ch, cur) ==
    IF attrs.HeadHash \notin ch
    THEN [err |-> ErrUnknownParent, slotAttrs |-> cur]
    ELSE [err |-> NoErr, slotAttrs |-> attrs]

\* Mutant: a dispatch loop that discards only the records of lower slots.
DispatchPayloadDuplicates(p, cs, ch, cur) ==
    IF p.Slot < cs
    THEN [currentSlot |-> cs, called |-> FALSE, err |-> NoErr, slotAttrs |-> cur]
    ELSE LET r == OnPayloadAttribute(p, ch, cur)
         IN  [currentSlot |-> p.Slot, called |-> TRUE, err |-> r.err,
              slotAttrs |-> r.slotAttrs]

\* One iteration of the dispatch loop on a received record p, with cs its
\* currentSlot.
DispatchPayload(p, cs, ch, cur) ==
    IF p.Slot <= cs
    THEN [currentSlot |-> cs, called |-> FALSE, err |-> NoErr, slotAttrs |-> cur]
    ELSE LET r == OnPayloadAttribute(p, ch, cur)
         IN  [currentSlot |-> p.Slot, called |-> TRUE, err |-> r.err,
              slotAttrs |-> r.slotAttrs]

\* A write of api.slotAttrs changes it under a build request in progress.
Disturbs(new) == pcB # "idle" /\ new # slotAttrs

\* The chain imports a block: GetBlockByHash finds it from now on.
ImportBlock(h) ==
    /\ h \notin chain
    /\ chain' = chain \cup {h}
    /\ UNCHANGED << slotAttrs, acceptErr, rpcAttrs, nAccepts, pipeVars, buildVars,
                    bundleVars >>

\* suavex_onPayloadAttribute, the exported method, is called over RPC.
CallOnPayloadAttribute(attrs) ==
    /\ rpcAttrs = NilPtr
    /\ nAccepts < MaxAccepts
    /\ rpcAttrs' = Ptr(attrs)
    /\ nAccepts' = nAccepts + 1
    /\ UNCHANGED << chain, slotAttrs, acceptErr, pipeVars, buildVars,
                    bundleVars >>

\* The RPC server runs OnPayloadAttribute on the argument and answers.
ServeOnPayloadAttribute ==
    /\ rpcAttrs # NilPtr
    /\ LET r == OnPayloadAttribute(Deref(rpcAttrs), chain, slotAttrs)
       IN  /\ slotAttrs' = r.slotAttrs
           /\ dirty' = (dirty \/ Disturbs(r.slotAttrs))
           /\ acceptErr' = r.err
    /\ rpcAttrs' = NilPtr
    /\ UNCHANGED << chain, nAccepts, pipeVars, pcB, kind, field, callerArgs,
                    buildArgs, startedEmpty, backendCalls, backendOut, result, nBuilds,
                    bundleVars >>

\* ------------------------------------------------------ subsystem start/stop
\* SuaveAPI.Start: the dispatch goroutine makes the channel, starts the
\* subscription goroutine and enters its loop.
Start ==
    /\ pcDisp = "idle"
    /\ pcDisp' = "select"
    /\ pcSub' = "loop"
    /\ UNCHANGED << sent, taken >>
    /\ UNCHANGED << stopClosed, ctxCancelled, currentSlot, msg, payloadAttrC,
                    fails, nEvents, dropped, storeVars, buildVars,
                    bundleVars >>

\* SuaveAPI.Stop: close(api.stop).
Stop ==
    /\ pcDisp # "idle"
    /\ ~stopClosed
    /\ stopClosed' = TRUE
    /\ UNCHANGED << sent, taken >>
    /\ UNCHANGED << ctxCancelled, pcDisp, currentSlot, pcSub, msg, payloadAttrC,
                    fails, nEvents, dropped, storeVars, buildVars,
                    bundleVars >>

\* OpBeaconClient.Stop: opbc.cancelFn().
BeaconClientStop ==
    /\ ~ctxCancelled
    /\ ctxCancelled' = TRUE
    /\ UNCHANGED << sent, taken >>
    /\ UNCHANGED << stopClosed, pcDisp, currentSlot, pcSub, msg, payloadAttrC,
                    fails, nEvents, dropped, storeVars, buildVars,
                    bundleVars >>

\* ---------------------------------------------------------- dispatch loop
\* The log with rec added, when a log is kept.
Logged(log, rec) == IF IsNil(log) THEN log ELSE Ptr(Append(Deref(log), rec))

\* select, case <-api.stop: return.
DispatchStop ==
    /\ pcDisp = "select"
    /\ stopClosed
    /\ pcDisp' = "exited"
    /\ UNCHANGED << sent, taken >>
    /\ UNCHANGED << stopClosed, ctxCancelled, currentSlot, pcSub, msg,
                    payloadAttrC, fails, nEvents, dropped, storeVars, buildVars,
                    bundleVars >>

\* select, case payloadAttributes := <-c: the blocked sender is released and
\* the record goes through one iteration of the loop.
DispatchReceive ==
    /\ pcDisp = "select"
    /\ payloadAttrC # << >>
    /\ LET p == payloadAttrC[1]
           r == DispatchPayload(p, currentSlot, chain, slotAttrs)
       IN  /\ currentSlot' = r.currentSlot
           /\ slotAttrs' = r.slotAttrs
           /\ dirty' = (dirty \/ Disturbs(r.slotAttrs))
           /\ acceptErr' = IF r.called THEN r.err ELSE acceptErr
    /\ payloadAttrC' = << >>
    /\ msg' = NilPtr
    /\ pcSub' = "subscribed"
    /\ taken' = Logged(taken, payloadAttrC[1])
    /\ UNCHANGED sent
    /\ UNCHANGED << stopClosed, ctxCancelled, pcDisp, fails, nEvents, dropped,
                    chain, rpcAttrs, nAccepts, pcB, kind, field, callerArgs,
                    buildArgs, startedEmpty, backendCalls, backendOut, result, nBuilds,
                    bundleVars >>

\* ----------------------------------------------------- subscription client
Min(a, b) == IF a < b THEN a ELSE b

\* Mutant: a loop that returns after a failed subscribe call.
AfterSubscribeGiveUp(err) == IF err THEN "returned" ELSE "loop"

\* Where the loop of SubscribeToPayloadAttributesEvents goes when
\* SubscribeWithContext has returned err: the backoff when err # nil, and in
\* both cases the top of the loop again.
AfterSubscribe(err) == IF err THEN "sleep" ELSE "loop"

\* Mutant: a handler that sends what it decoded although Unmarshal failed.
HandleEventUnchecked(raw) ==
    LET u == Unmarshal(raw)
    IN  [deliver |-> TRUE, data |-> u.data]

\* The handler given to SubscribeWithContext, on one event: whether it sends
\* on the channel, and what.
HandleEvent(raw) ==
    LET u == Unmarshal(raw)
    IN  [deliver |-> ~u.err, data |-> u.data]

\* client.SubscribeWithContext connects: from now on the handler is called
\* for each event. A cancelled context lets no request through.
Connect ==
    /\ pcSub = "loop"
    /\ ~ctxCancelled
    /\ pcSub' = "subscribed"
    /\ dropped' = FALSE
    /\ UNCHANGED << sent, taken >>
    /\ UNCHANGED << stopClosed, ctxCancelled, pcDisp, currentSlot, msg,
                    payloadAttrC, fails, nEvents, storeVars, buildVars,
                    bundleVars >>

\* client.SubscribeWithContext returns an error without having connected.
SubscribeFails ==
    /\ pcSub = "loop"
    /\ pcSub' = AfterSubscribe(TRUE)
    /\ fails' = Min(fails + 1, MaxFails)
    /\ UNCHANGED << sent, taken >>
    /\ UNCHANGED << stopClosed, ctxCancelled, pcDisp, currentSlot, msg,
                    payloadAttrC, nEvents, dropped, storeVars, buildVars,
                    bundleVars >>

\* time.Sleep(1 * time.Second) is over.
Backoff ==
    /\ pcSub = "sleep"
    /\ pcSub' = "loop"
    /\ UNCHANGED << sent, taken >>
    /\ UNCHANGED << stopClosed, ctxCancelled, pcDisp, currentSlot, msg,
                    payloadAttrC, fails, nEvents, dropped, storeVars, buildVars,
                    bundleVars >>

\* The established subscription ends (stream closed, connection lost or
\* context cancelled): SubscribeWithContext returns nil or an error.
SubscriptionEnds(err) ==
    /\ pcSub = "subscribed"
    /\ pcSub' = AfterSubscribe(err)
    /\ fails' = IF err THEN 1 ELSE 0
    /\ UNCHANGED << sent, taken >>
    /\ UNCHANGED << stopClosed, ctxCancelled, pcDisp, currentSlot, msg,
                    payloadAttrC, nEvents, dropped, storeVars, buildVars,
                    bundleVars >>

\* Mutant: a handler whose send puts the record on the channel, over a
\* record still waiting there, and does not wait.
EventArrivesOverwrites(raw) ==
    /\ pcSub = "subscribed"
    /\ nEvents < MaxEvents
    /\ nEvents' = nEvents + 1
    /\ msg' = Ptr(raw)
    /\ LET h == HandleEvent(raw)
       IN  IF h.deliver
           THEN /\ payloadAttrC' = << h.data >>
                /\ UNCHANGED << pcSub, dropped >>
           ELSE /\ dropped' = TRUE
                /\ UNCHANGED << payloadAttrC, pcSub >>
    /\ sent' = (IF HandleEvent(raw).deliver
              THEN Logged(sent, HandleEvent(raw).data) ELSE sent)
    /\ UNCHANGED taken
    /\ UNCHANGED << stopClosed, ctxCancelled, pcDisp, currentSlot, fails,
                    storeVars, buildVars,
                    bundleVars >>

\* An event arrives on the connection and the handler runs up to its send
\* (which blocks until the dispatch loop receives) or to its return.
EventArrives(raw) ==
    /\ pcSub = "subscribed"
    /\ nEvents < MaxEvents
    /\ nEvents' = nEvents + 1
    /\ msg' = Ptr(raw)
    /\ LET h == HandleEvent(raw)
       IN  IF h.deliver
           THEN /\ payloadAttrC' = << h.data >>
                /\ pcSub' = "send"
                /\ UNCHANGED dropped
           ELSE /\ dropped' = TRUE
                /\ UNCHANGED << payloadAttrC, pcSub >>
    /\ sent' = (IF HandleEvent(raw).deliver
              THEN Logged(sent, HandleEvent(raw).data) ELSE sent)
    /\ UNCHANGED taken
    /\ UNCHANGED << stopClosed, ctxCancelled, pcDisp, currentSlot, fails,
                    storeVars, buildVars,
                    bundleVars >>

\* ---------------------------------------------------------- build requests
NumFields == 10

\* Evaluating line i of the BuildBlockArgs literal dereferences a nil pointer.
Panics(i, sa, ca) ==
    \/ i = 8 /\ IsNil(sa.ParentBeaconBlockRoot)
    \/ i = 9 /\ IsNil(ca)

\* Mutant: the literal without the override of the fee recipient, which stays
\* the caller's.
ReadFieldCallerFee(i, a, sa, ca) ==
    CASE i = 1 -> [a EXCEPT !.Slot = sa.Slot]
      [] i = 2 -> [a EXCEPT !.Parent = sa.HeadHash]
      [] i = 3 -> [a EXCEPT !.Timestamp = sa.Timestamp]
      [] i = 4 -> [a EXCEPT !.FeeRecipient =
                      IF IsNil(ca) THEN 0 ELSE Deref(ca).FeeRecipient]
      [] i = 5 -> [a EXCEPT !.GasLimit = sa.GasLimit]
      [] i = 6 -> [a EXCEPT !.Random = sa.Random]
      [] i = 7 -> [a EXCEPT !.Withdrawals = sa.Withdrawals]
      [] i = 8 -> [a EXCEPT !.BeaconRoot = Deref(sa.ParentBeaconBlockRoot)]
      [] i = 9 -> [a EXCEPT !.FillPending = Deref(ca).FillPending]
      [] i = 10 -> [a EXCEPT !.Transactions = sa.Transactions]

\* Line i of the BuildBlockArgs literal: args a with the i-th field set from
\* the slot attributes sa as they are now, or from the caller's struct ca.
ReadField(i, a, sa, ca) ==
    CASE i = 1 -> [a EXCEPT !.Slot = sa.Slot]
      [] i = 2 -> [a EXCEPT !.Parent = sa.HeadHash]
      [] i = 3 -> [a EXCEPT !.Timestamp = sa.Timestamp]
      [] i = 4 -> [a EXCEPT !.FeeRecipient = sa.SuggestedFeeRecipient]
      [] i = 5 -> [a EXCEPT !.GasLimit = sa.GasLimit]
      [] i = 6 -> [a EXCEPT !.Random = sa.Random]
      [] i = 7 -> [a EXCEPT !.Withdrawals = sa.Withdrawals]
      [] i = 8 -> [a EXCEPT !.BeaconRoot = Deref(sa.ParentBeaconBlockRoot)]
      [] i = 9 -> [a EXCEPT !.FillPending = Deref(ca).FillPending]
      [] i = 10 -> [a EXCEPT !.Transactions = sa.Transactions]

\* Mutant: a build operation that wraps the backend's error in its own.
BuildReturnWrapped(o) ==
    IF o.err # NoErr
    THEN [kind |-> "error", err |-> "build failed", block |-> "nil",
          profit |-> 0]
    ELSE [kind |-> "envelope", err |-> NoErr, block |-> o.block,
          profit |-> o.profit]

\* What a build operation returns for the backend's (block, profit, err):
\* the error as it is, or engine.BlockToExecutableData(block, profit, nil).
BuildReturn(o) ==
    IF o.err # NoErr
    THEN [kind |-> "error", err |-> o.err, block |-> "nil", profit |-> 0]
    ELSE [kind |-> "envelope", err |-> NoErr, block |-> o.block,
          profit |-> o.profit]

BuildRequest(k, ca) ==
    /\ pcB = "idle"
    /\ nBuilds < MaxBuilds
    /\ pcB' = "read"
    /\ kind' = k
    /\ field' = 1
    /\ callerArgs' = ca
    /\ buildArgs' = ZeroArgs
    /\ dirty' = FALSE
    /\ startedEmpty' = (slotAttrs = ZeroAttrs)
    /\ backendCalls' = 0
    /\ backendOut' = NoOutcome
    /\ result' = NoResult
    /\ nBuilds' = nBuilds + 1
    /\ UNCHANGED << pipeVars, storeVars,
                    bundleVars >>

\* suavex_buildEthBlock is called.
BuildEthBlock(ca) == BuildRequest("txs", ca)

\* suavex_buildEthBlockFromBundles is called.
BuildEthBlockFromBundles(ca) == BuildRequest("bundles", ca)

\* The request evaluates the next field of the literal, reading api.slotAttrs
\* without holding slotMu; a nil dereference ends it in a panic.
EvalField ==
    /\ pcB = "read"
    /\ IF Panics(field, slotAttrs, callerArgs)
       THEN /\ pcB' = "done"
            /\ result' = [kind |-> "panic", err |-> ErrNilDeref,
                          block |-> "nil", profit |-> 0]
            /\ UNCHANGED << buildArgs, field >>
       ELSE /\ buildArgs' = ReadField(field, buildArgs, slotAttrs, callerArgs)
            /\ field' = field + 1
            /\ pcB' = IF field = NumFields THEN "call" ELSE "read"
            /\ UNCHANGED result
    /\ UNCHANGED << kind, callerArgs, dirty, startedEmpty, backendCalls,
                    backendOut, nBuilds, pipeVars, storeVars,
                    bundleVars >>

BackendBuild(k, o) ==
    /\ pcB = "call"
    /\ kind = k
    /\ backendCalls' = backendCalls + 1
    /\ backendOut' = o
    /\ result' = BuildReturn(o)
    /\ pcB' = "done"
    /\ UNCHANGED << kind, field, callerArgs, buildArgs, dirty, startedEmpty,
                    nBuilds, pipeVars, storeVars,
                    bundleVars >>

\* api.b.APIBackend.BuildBlockFromTxs returns o and BuildEthBlock returns.
BuildBlockFromTxs(o) == BackendBuild("txs", o)

\* api.b.APIBackend.BuildBlockFromBundles returns o and
\* BuildEthBlockFromBundles returns.
BuildBlockFromBundles(o) == BackendBuild("bundles", o)

\* The caller has its answer; the next request may come.
BuildDone ==
    /\ pcB = "done"
    /\ pcB' = "idle"
    /\ kind' = "none"
    /\ field' = 0
    /\ callerArgs' = NilPtr
    /\ buildArgs' = ZeroArgs
    /\ dirty' = FALSE
    /\ startedEmpty' = FALSE
    /\ backendCalls' = 0
    /\ backendOut' = NoOutcome
    /\ result' = NoResult
    /\ UNCHANGED << nBuilds, pipeVars, storeVars,
                    bundleVars >>

\* ------------------------------------------------------------ bundle calls
wireVars == << pcW, sbundle, wire, decoded >>

\* A task calls Hash on the shared bundle and loads the cache: a cached
\* hash is returned at once.
HashLoad(t) ==
    /\ pcH[t] = "idle"
    /\ IF ~IsNil(LoadHash(bundle))
       THEN /\ pcH' = [pcH EXCEPT ![t] = "hit"]
            /\ ret' = [ret EXCEPT ![t] = Ptr(Deref(LoadHash(bundle)))]
       ELSE /\ pcH' = [pcH EXCEPT ![t] = "compute"]
            /\ ret' = [ret EXCEPT ![t] = NilPtr]
    /\ UNCHANGED << bundle, hLocal, refundArg, refundOut, wireVars, suaveVars >>

\* The task runs the loop over the body (the nested Hash calls fill the
\* nested caches) and has its h.
HashCompute(t) ==
    /\ pcH[t] = "compute"
    /\ LET c == ComputeHash(bundle)
       IN  /\ bundle' = c.b
           /\ hLocal' = [hLocal EXCEPT ![t] = c.h]
    /\ pcH' = [pcH EXCEPT ![t] = "store"]
    /\ UNCHANGED << ret, refundArg, refundOut, wireVars, suaveVars >>

\* b.hash.Store(h); return h.
HashStore(t) ==
    /\ pcH[t] = "store"
    /\ bundle' = [bundle EXCEPT !.hash = Ptr(hLocal[t])]
    /\ ret' = [ret EXCEPT ![t] = Ptr(hLocal[t])]
    /\ pcH' = [pcH EXCEPT ![t] = "stored"]
    /\ UNCHANGED << hLocal, refundArg, refundOut, wireVars, suaveVars >>

\* The caller has the hash; the task may call again.
HashReturn(t) ==
    /\ pcH[t] \in {"stored", "hit"}
    /\ pcH' = [pcH EXCEPT ![t] = "idle"]
    /\ hLocal' = [hLocal EXCEPT ![t] = HashZero]
    /\ UNCHANGED << bundle, ret, refundArg, refundOut, wireVars, suaveVars >>

\* Some task is between the load and the store of a Hash call.
Hashing == \E t \in Tasks : pcH[t] \in {"compute", "store"}

\* The owner assigns b.Body. Body is a plain field: an assignment while a
\* Hash call reads it would be a data race of the caller, so the body
\* changes between calls only. The hash field is not touched.
SetBody(body) ==
    /\ ~Hashing
    /\ body # bundle.Body
    /\ bundle' = [bundle EXCEPT !.Body = body]
    /\ UNCHANGED << pcH, hLocal, ret, refundArg, refundOut, wireVars, suaveVars >>

\* The bodies a caller can resolve: the one wrapping the bundle, and the
\* bundle's own.
RefundArgs == { BundleBody(bundle) } \cup { bundle.Body[i] : i \in 1 .. Len(bundle.Body) }

\* A caller that is in no other call calls GetRefundConfig(&body, signer).
CallGetRefundConfig(body) ==
    /\ \A t \in Tasks : pcH[t] = "idle"
    /\ refundArg # Ptr(body)
    /\ refundArg' = Ptr(body)
    /\ refundOut' = GetRefundConfig(body)
    /\ UNCHANGED << bundle, pcH, hLocal, ret, wireVars, suaveVars >>

\* s.MarshalJSON() (it returns no error: every transaction encodes).
CallMarshalJSON ==
    /\ pcW = "idle"
    /\ wire' = Ptr(MarshalJSON(sbundle))
    /\ pcW' = "encoded"
    /\ UNCHANGED << sbundle, decoded, bundle, pcH, hLocal, ret, refundArg,
                    refundOut, suaveVars >>

\* new(SBundleFromSuave).UnmarshalJSON(data) on what MarshalJSON returned.
CallUnmarshalJSON ==
    /\ pcW = "encoded"
    /\ LET u == UnmarshalJSON(Deref(wire))
       IN  /\ decoded' = IF u.err THEN NilPtr ELSE Ptr(u.s)
           /\ pcW' = IF u.err THEN "failed" ELSE "decoded"
    /\ UNCHANGED << sbundle, wire, bundle, pcH, hLocal, ret, refundArg,
                    refundOut, suaveVars >>

\* ---------------------------------------------------------- specifications
\* The store: records come over the channel and over RPC, blocks are imported.
Next ==
    \/ Start
    \/ Connect
    \/ \E raw \in Events : EventArrives(raw)
    \/ DispatchReceive
    \/ \E h \in Hashes : ImportBlock(h)
    \/ \E a \in AllAttrs : CallOnPayloadAttribute(a)
    \/ ServeOnPayloadAttribute

Spec == Init /\ [][Next]_vars

\* The build requests, running while the dispatch loop updates the store.
NextBuild ==
    \/ Start
    \/ Connect
    \/ \E raw \in Events : EventArrives(raw)
    \/ DispatchReceive
    \/ \E ca \in CallerArgs : BuildEthBlock(ca)
    \/ \E ca \in CallerArgs : BuildEthBlockFromBundles(ca)
    \/ EvalField
    \/ \E o \in BackendOutcomes : BuildBlockFromTxs(o)
    \/ \E o \in BackendOutcomes : BuildBlockFromBundles(o)
    \/ BuildDone

BuildSpec == Init /\ [][NextBuild]_vars

\* The subscription client, the dispatch loop and the two Stop operations.
NextLive ==
    \/ Start
    \/ Stop
    \/ BeaconClientStop
    \/ Connect
    \/ SubscribeFails
    \/ Backoff
    \/ \E err \in BOOLEAN : SubscriptionEnds(err)
    \/ \E raw \in Events : EventArrives(raw)
    \/ DispatchReceive
    \/ DispatchStop

\* The two goroutines are scheduled whenever they can take a step.
Fairness ==
    /\ WF_vars(Connect \/ SubscribeFails)
    /\ WF_vars(Backoff)
    /\ WF_vars(DispatchReceive \/ DispatchStop)

LiveSpec == Init /\ [][NextLive]_vars /\ Fairness

\* The same subsystem, with a log of what goes into and comes out of the
\* channel.
InitLogged ==
    /\ InitSuave
    /\ EmptyLog
    /\ InitBundle(SBundle(<< >>, << >>))
    /\ InitWire(ZeroSBundleFromSuave)

DeliverSpec == InitLogged /\ [][NextLive]_vars

\* One caller hashes and resolves a bundle, any of at most MaxElems elements.
InitBundles ==
    /\ InitSuave
    /\ NoLog
    /\ \E b \in Bundles : InitBundle(b)
    /\ InitWire(ZeroSBundleFromSuave)

NextBundle ==
    \/ HashLoad(1)
    \/ HashCompute(1)
    \/ HashStore(1)
    \/ HashReturn(1)
    \/ \E body \in RefundArgs : CallGetRefundConfig(body)

BundleSpec == InitBundles /\ [][NextBundle]_vars

\* The tasks hash one shared bundle, whose owner changes its body.
InitHash ==
    /\ InitSuave
    /\ NoLog
    /\ \E body \in SharedBodies : InitBundle(SBundle(body, << >>))
    /\ InitWire(ZeroSBundleFromSuave)

NextHash ==
    \/ \E t \in Tasks : HashLoad(t)
    \/ \E t \in Tasks : HashCompute(t)
    \/ \E t \in Tasks : HashStore(t)
    \/ \E t \in Tasks : HashReturn(t)
    \/ \E body \in SharedBodies : SetBody(body)

HashSpec == InitHash /\ [][NextHash]_vars

\* A bundle goes to the wire format and back.
InitWires ==
    /\ InitSuave
    /\ NoLog
    /\ InitBundle(SBundle(<< >>, << >>))
    /\ \E s \in SBundlesFromSuave : InitWire(s)

NextWire ==
    \/ CallMarshalJSON
    \/ CallUnmarshalJSON

WireSpec == InitWires /\ [][NextWire]_vars

\* ======================================================== claims: the store
\* The step in which the RPC server runs OnPayloadAttribute.
ServeStep == rpcAttrs # NilPtr /\ rpcAttrs' = NilPtr

\* The step in which the dispatch loop receives a record from the channel.
ReceiveStep == payloadAttrC # << >> /\ payloadAttrC' = << >>

C3_UnknownParentRejected ==
    [][ /\ (ServeStep /\ Deref(rpcAttrs).HeadHash \notin chain)
             => (acceptErr' = ErrUnknownParent /\ slotAttrs' = slotAttrs)
        /\ (ReceiveStep /\ payloadAttrC[1].Slot > currentSlot
                        /\ payloadAttrC[1].HeadHash \notin chain)
             => (acceptErr' = ErrUnknownParent /\ slotAttrs' = slotAttrs) ]_vars

\* C3 witness: the latest call was rejected for its unknown parent while an
\* earlier accepted record is still the current one.
C3_Witness ==
    /\ acceptErr = ErrUnknownParent
    /\ slotAttrs # ZeroAttrs
    /\ slotAttrs.HeadHash \in chain

\* =============================================== claims: the build requests
\* The BuildBlockArgs both build operations would make of the record sa alone,
\* with the caller's fill-pending flag fp.
ArgsOf(sa, fp) ==
    [ Slot |-> sa.Slot, Parent |-> sa.HeadHash, Timestamp |-> sa.Timestamp,
      FeeRecipient |-> sa.SuggestedFeeRecipient, GasLimit |-> sa.GasLimit,
      Random |-> sa.Random, Withdrawals |-> sa.Withdrawals,
      BeaconRoot |-> Deref(sa.ParentBeaconBlockRoot), FillPending |-> fp,
      Transactions |-> sa.Transactions ]

\* The records the store can hold that a build request can read to the end.
Buildable == { r \in AllAttrs : ~IsNil(r.ParentBeaconBlockRoot) }

\* The request has passed its arguments to the backend.
BackendCalled == pcB = "done" /\ backendCalls > 0

\* C2: the arguments that a build request begun under an accepted record
\* passes to the backend all come from one single accepted record, also when
\* the dispatch loop updates the store while the request runs.
C2_ArgsFromOneRecord ==
    (BackendCalled /\ ~startedEmpty) =>
        \E r \in Buildable :
            /\ r.HeadHash \in chain
            /\ buildArgs = ArgsOf(r, buildArgs.FillPending)

\* Some field of the arguments a holds the value of the empty initial record
\* (no event carries these values).
FromEmptyRecord(a) ==
    \/ a.Parent = ZeroAttrs.HeadHash
    \/ a.Timestamp = ZeroAttrs.Timestamp
    \/ a.FeeRecipient = ZeroAttrs.SuggestedFeeRecipient
    \/ a.GasLimit = ZeroAttrs.GasLimit
    \/ a.Random = ZeroAttrs.Random
    \/ a.Withdrawals = ZeroAttrs.Withdrawals
    \/ a.Transactions = ZeroAttrs.Transactions

\* C4: a build request that arrives before any slot attributes were accepted
\* either ends in a failure (an error or a crash, no envelope) without
\* calling the backend, or, when a record was accepted meanwhile, calls the
\* backend with no argument taken from the empty initial record.
C4_NoBuildOnEmptyRecord ==
    (pcB = "done" /\ startedEmpty) =>
        IF backendCalls = 0
        THEN result.kind \in {"error", "panic"}
        ELSE ~FromEmptyRecord(buildArgs)

\* The values a field of the slot attributes can hold.
StoreValues(f) == { r[f] : r \in AllAttrs \cup {ZeroAttrs} }

\* C5: for both build operations and every argument struct of the caller,
\* the arguments passed to the backend take the fill-pending flag from the
\* caller and every other field from api.slotAttrs, never from the caller;
\* when the store did not change under the request they are exactly the
\* fields of the current slot attributes.
C5_ArgsFromSlotAttrs ==
    BackendCalled =>
        /\ buildArgs.FillPending = Deref(callerArgs).FillPending
        /\ buildArgs.Slot \in StoreValues("Slot")
        /\ buildArgs.Parent \in StoreValues("HeadHash")
        /\ buildArgs.Timestamp \in StoreValues("Timestamp")
        /\ buildArgs.FeeRecipient \in StoreValues("SuggestedFeeRecipient")
        /\ buildArgs.GasLimit \in StoreValues("GasLimit")
        /\ buildArgs.Random \in StoreValues("Random")
        /\ buildArgs.Withdrawals \in StoreValues("Withdrawals")
        /\ Ptr(buildArgs.BeaconRoot) \in StoreValues("ParentBeaconBlockRoot")
        /\ buildArgs.Transactions \in StoreValues("Transactions")
        /\ ~dirty =>
             buildArgs = ArgsOf(slotAttrs, Deref(callerArgs).FillPending)

\* C5 witness: a bundle build whose caller set fill-pending and its own fee
\* recipient has called the backend with the fee recipient of the current
\* slot attributes.
C5_Witness ==
    /\ BackendCalled
    /\ kind = "bundles"
    /\ ~dirty
    /\ Deref(callerArgs).FillPending
    /\ buildArgs.FillPending
    /\ buildArgs.FeeRecipient = slotAttrs.SuggestedFeeRecipient
    /\ buildArgs.FeeRecipient # Deref(callerArgs).FeeRecipient

\* C10: when the backend build operation reports an error, the build
\* operation returns exactly that error and no envelope, having called the
\* backend once.
C10_BackendErrorVerbatim ==
    (BackendCalled /\ backendOut.err # NoErr) =>
        /\ result.kind = "error"
        /\ result.err = backendOut.err
        /\ result.block = "nil"
        /\ backendCalls = 1

\* C10 witness: a transaction build has returned the backend's second error.
C10_Witness ==
    /\ BackendCalled
    /\ kind = "txs"
    /\ backendOut.err = "backend error 2"
    /\ result.err = "backend error 2"

\* ============================================ claims: the subscription client
\* C6: every failed subscribe call is followed, after the backoff, by another
\* subscribe call, however many have failed before, and an event parsed on
\* an established subscription is taken by the dispatch loop unless the
\* subsystem has been stopped.
C6_RetriesForever ==
    /\ (pcSub = "sleep") ~> (pcSub = "loop")
    /\ (pcSub = "loop") ~> (pcSub \in {"sleep", "subscribed"})
    /\ (pcSub = "send") ~> (payloadAttrC = << >> \/ stopClosed)

\* C6 witness: after MaxFails consecutive failed subscribe calls the client
\* has connected and is delivering a parsed event.
C6_Witness ==
    /\ fails = MaxFails
    /\ pcSub = "send"
    /\ payloadAttrC # << >>
    /\ ~ctxCancelled

\* C7: once the client is cancelled, the retry loop stops and the
\* subscription task ends.
C7_CancelEndsSubscription ==
    (ctxCancelled /\ pcSub \in {"loop", "sleep"}) ~> (pcSub = "returned")

\* C8: after SuaveAPI.Stop the context of the event client is cancelled.
C8_StopCancelsClient == stopClosed => ctxCancelled

\* The step in which the handler is given an event.
EventStep == nEvents' # nEvents

\* C9: what is offered on the channel is always the decoding of a well-formed
\* event; an event that fails to parse is not sent and leaves the
\* subscription established, and a well-formed event, also after a dropped
\* one on the same connection, is decoded and sent.
C9_MalformedDropped ==
    /\ [](payloadAttrC # << >> =>
            /\ msg # NilPtr
            /\ Deref(msg) \in WellFormedEvents
            /\ payloadAttrC[1] = Unmarshal(Deref(msg)).data
            /\ payloadAttrC[1] \in AllAttrs)
    /\ [][ /\ (EventStep /\ Deref(msg') \in MalformedEvents)
                => (payloadAttrC' = << >> /\ pcSub' = "subscribed" /\ dropped')
           /\ (EventStep /\ Deref(msg') \in WellFormedEvents)
                => (payloadAttrC' = << Unmarshal(Deref(msg')).data >>
                    /\ pcSub' = "send" /\ dropped' = dropped) ]_vars

\* C9 witness: on a connection on which an event was dropped, a later
\* well-formed event is being sent.
C9_Witness ==
    /\ dropped
    /\ pcSub = "send"
    /\ payloadAttrC # << >>
    /\ Deref(msg) \in WellFormedEvents

\* ================================================== claims: the bundle types
\* What the contract of Hash gives a body element and a bundle by their
\* contents alone: the hash of the one element, or the digest of the
\* elements' hashes written in body order.
RECURSIVE ContentHash(_)
ElementHash(e) ==
    IF ~IsNil(e.Tx) THEN TxHash(Deref(e.Tx))
    ELSE IF ~IsNil(e.Bundle) THEN ContentHash(Deref(e.Bundle))
    ELSE HashZero

ElementHashes(b) == [ i \in 1 .. Len(b.Body) |-> ElementHash(b.Body[i]) ]

ContentHash(b) ==
    IF Len(b.Body) = 1 THEN ElementHash(b.Body[1])
    ELSE LegacyKeccak256(HasherWrite(ElementHashes(b)))

\* Every hash cached in b or in a bundle nested in it is the one its
\* contents have.
RECURSIVE CachesAgree(_)
CachesAgree(b) ==
    /\ ~IsNil(b.hash) => Deref(b.hash) = ContentHash(b)
    /\ \A i \in 1 .. Len(b.Body) :
          ~IsNil(b.Body[i].Bundle) => CachesAgree(Deref(b.Body[i].Bundle))

\* The hashes hs with the entries i and j exchanged.
Swap(hs, i, j) ==
    [ k \in 1 .. Len(hs) |-> IF k = i THEN hs[j] ELSE IF k = j THEN hs[i] ELSE hs[k] ]

\* C11: a Hash call on a bundle that was not changed since it was made
\* returns, for a body of one element, that element's own hash (the
\* transaction's hash, or the nested bundle's Hash, to any depth), and
\* otherwise the digest of the elements' hashes in body order; the same
\* holds of every nested bundle the call hashed; and the same elements with
\* two of different hashes exchanged have another digest.
C11_HashOfBody ==
    ~IsNil(ret[1]) =>
        /\ Len(bundle.Body) = 1 => Deref(ret[1]) = ElementHash(bundle.Body[1])
        /\ Len(bundle.Body) # 1 =>
              Deref(ret[1]) = LegacyKeccak256(HasherWrite(ElementHashes(bundle)))
        /\ CachesAgree(bundle)
        /\ \A i, j \in 1 .. Len(bundle.Body) :
              ElementHash(bundle.Body[i]) # ElementHash(bundle.Body[j]) =>
                 LegacyKeccak256(HasherWrite(Swap(ElementHashes(bundle), i, j)))
                    # Deref(ret[1])

\* C11 witness: the hash of a bundle whose one element is a nested bundle of
\* two transactions is the digest of their hashes in the nested body's
\* order, cached in the nested bundle too, and not the digest in the other
\* order.
C11_Witness ==
    /\ pcH[1] = "stored"
    /\ Len(bundle.Body) = 1
    /\ ~IsNil(bundle.Body[1].Bundle)
    /\ Deref(bundle.Body[1].Bundle).Body = << TxBody(2), TxBody(1) >>
    /\ Deref(ret[1]) = LegacyKeccak256(TxHash(2) \o TxHash(1))
    /\ Deref(bundle.Body[1].Bundle).hash = ret[1]
    /\ Deref(ret[1]) # LegacyKeccak256(TxHash(1) \o TxHash(2))

\* The step in which task t begins a Hash call.
CallsHash(t) == pcH[t] = "idle" /\ pcH'[t] # "idle"

\* C12: once a hash is cached for the bundle, a later Hash call returns the
\* cached value without computing, whatever the body has become; an
\* assignment to the body leaves the cache as it is; and all the values the
\* calls on the bundle have returned are the same.
C12_HashStable ==
    /\ [][ \A t \in Tasks :
              (CallsHash(t) /\ ~IsNil(bundle.hash)) =>
                 (pcH'[t] = "hit" /\ ret'[t] = bundle.hash /\ bundle' = bundle) ]_vars
    /\ [][ (~IsNil(bundle.hash) /\ bundle'.Body # bundle.Body) =>
              bundle'.hash = bundle.hash ]_vars
    /\ [](\A t, u \in Tasks :
              (~IsNil(ret[t]) /\ ~IsNil(ret[u])) => ret[t] = ret[u])

\* C12 witness: after the first task's call computed the hash, the body was
\* changed to one of another hash, and the second task's later call has
\* returned the value the first call returned.
C12_Witness ==
    /\ pcH[2] = "hit"
    /\ ~IsNil(ret[1])
    /\ ret[2] = ret[1]
    /\ bundle.hash = ret[1]
    /\ ContentHash(bundle) # Deref(ret[1])

\* The body given to the latest GetRefundConfig call.
RefundBody == Deref(refundArg)

\* The nested bundle b with nothing but its first body element.
FirstOnly(b) == [b EXCEPT !.Body = << b.Body[1] >>]

\* C13: GetRefundConfig returns the single entry (sender, 100) for a body
\* wrapping a transaction with a sender (the signer's error and no
\* configuration when it has none); the explicit configuration of the
\* wrapped bundle, unchanged, when it has one, whatever its body; and
\* otherwise, for a wrapped bundle with elements, what it returns for the
\* bundle's first element, which is also what it returns when the bundle
\* has no other element.
C13_RefundResolution ==
    ~IsNil(refundArg) =>
        /\ ~IsNil(RefundBody.Tx) =>
              LET s == Sender(Deref(RefundBody.Tx))
              IN  IF s.err = NoErr
                  THEN refundOut =
                         [cfg |-> << [Address |-> s.address, Percent |-> 100] >>,
                          err |-> NoErr]
                  ELSE refundOut = [cfg |-> << >>, err |-> s.err]
        /\ (IsNil(RefundBody.Tx) /\ ~IsNil(RefundBody.Bundle)) =>
              LET b == Deref(RefundBody.Bundle)
              IN  /\ Len(b.RefundConfig) > 0 =>
                        refundOut = [cfg |-> b.RefundConfig, err |-> NoErr]
                  /\ (Len(b.RefundConfig) = 0 /\ Len(b.Body) > 0) =>
                        /\ refundOut = GetRefundConfig(b.Body[1])
                        /\ refundOut = GetRefundConfig(BundleBody(FirstOnly(b)))

\* C13 witness: a bundle without a configuration whose first element is a
\* nested bundle without one, which holds transaction 2 before another
\* element, and which is followed by a further element, resolves to
\* (sender of transaction 2, 100).
C13_Witness ==
    /\ ~IsNil(refundArg)
    /\ RefundBody = BundleBody(bundle)
    /\ bundle.RefundConfig = << >>
    /\ Len(bundle.Body) = 2
    /\ ~IsNil(bundle.Body[1].Bundle)
    /\ Deref(bundle.Body[1].Bundle).RefundConfig = << >>
    /\ Deref(bundle.Body[1].Bundle).Body = << TxBody(2) >>
    /\ bundle.Body[2] = TxBody(1)
    /\ refundOut = [cfg |-> << [Address |-> "A2", Percent |-> 100] >>, err |-> NoErr]

\* The chain of first body elements from body reaches a nested bundle with
\* no body elements and no explicit configuration.
RECURSIVE ReachesEmptyBundle(_)
ReachesEmptyBundle(body) ==
    /\ IsNil(body.Tx)
    /\ ~IsNil(body.Bundle)
    /\ Len(Deref(body.Bundle).RefundConfig) = 0
    /\ \/ Len(Deref(body.Bundle).Body) = 0
       \/ ReachesEmptyBundle(Deref(body.Bundle).Body[1])

\* C14: whenever the chain of first body elements reaches, at any depth, a
\* nested bundle with no body elements and no explicit configuration,
\* GetRefundConfig returns ErrIncorrectRefundConfig and no configuration.
C14_EmptyBundleFails ==
    (~IsNil(refundArg) /\ ReachesEmptyBundle(RefundBody)) =>
        refundOut = [cfg |-> << >>, err |-> ErrIncorrectRefundConfig]

\* C14 witness: the empty bundle without a configuration is two levels
\* below the body resolved, before a transaction, and the call has failed.
C14_Witness ==
    /\ ~IsNil(refundArg)
    /\ RefundBody = BundleBody(bundle)
    /\ bundle.RefundConfig = << >>
    /\ Len(bundle.Body) = 2
    /\ bundle.Body[1] = BundleBody(SBundle(<< >>, << >>))
    /\ bundle.Body[2] = TxBody(1)
    /\ refundOut.err = ErrIncorrectRefundConfig

\* ============================================== claims: the dispatch loop
\* C15: whatever the order of the records on the channel, the dispatch loop
\* replaces the current record only by the record it received, only when
\* that record's slot is above every slot it has admitted before
\* (currentSlot, which never decreases), and then admits that slot; as long
\* as no OnPayloadAttribute call has come over RPC, every replacement of
\* the current record strictly raises its slot.
C15_DispatchIncreasing ==
    /\ [][ /\ currentSlot' >= currentSlot
           /\ (ReceiveStep /\ slotAttrs' # slotAttrs) =>
                 /\ slotAttrs' = payloadAttrC[1]
                 /\ payloadAttrC[1].Slot > currentSlot
                 /\ currentSlot' = payloadAttrC[1].Slot
           /\ (nAccepts = 0 /\ slotAttrs' # slotAttrs) =>
                 slotAttrs'.Slot > slotAttrs.Slot ]_vars
    /\ [](nAccepts = 0 => slotAttrs.Slot <= currentSlot)

\* C15 witness: the dispatch loop has received two well-formed records and
\* no call has come over RPC; the record of slot 1 is current and 1 is the
\* highest slot admitted, so the other record (a duplicate of slot 1 or a
\* record of slot 0, before or after it) was discarded.
C15_Witness ==
    /\ nEvents = 2
    /\ ~dropped
    /\ payloadAttrC = << >>
    /\ nAccepts = 0
    /\ slotAttrs.Slot = 1
    /\ currentSlot = 1
    /\ acceptErr = NoErr

\* C16: whenever the dispatch loop receives a record whose slot is above
\* the slot of the current record and whose parent block is found, that
\* record becomes the current record (no call having come over RPC); so a
\* record of slot s is accepted after an earlier record of slot s was
\* rejected for its unknown parent.
C16_HigherSlotAccepted ==
    [][ (ReceiveStep /\ nAccepts = 0
                     /\ payloadAttrC[1].Slot > slotAttrs.Slot
                     /\ payloadAttrC[1].HeadHash \in chain)
          => (slotAttrs' = payloadAttrC[1] /\ acceptErr' = NoErr) ]_vars

\* C17: the records the dispatch loop has received are, in order, the
\* decodings of the well-formed events the handler was given, all of them but
\* at most the last one, which the handler is then blocked sending; an event
\* that fails to parse adds nothing; and the handler is given no further
\* event while a record waits on the channel.
C17_DeliveredOnceInOrder ==
    /\ [](LET s == Deref(sent)
              t == Deref(taken)
          IN  /\ Len(t) <= Len(s)
              /\ t = SubSeq(s, 1, Len(t))
              /\ Len(s) - Len(t) = (IF payloadAttrC # << >> THEN 1 ELSE 0)
              /\ payloadAttrC # << >> =>
                    (payloadAttrC[1] = s[Len(s)] /\ pcSub = "send"))
    /\ [][ EventStep =>
              /\ payloadAttrC = << >>
              /\ Deref(sent') =
                    (IF Deref(msg') \in WellFormedEvents
                     THEN Append(Deref(sent), Unmarshal(Deref(msg')).data)
                     ELSE Deref(sent)) ]_vars
    /\ [][ ReceiveStep => Deref(taken') = Append(Deref(taken), payloadAttrC[1]) ]_vars

\* C17 witness: the events of slot 2 and then of slot 1 were parsed, and the
\* dispatch loop has received exactly these two records in that order.
C17_Witness ==
    /\ ~IsNil(taken)
    /\ Len(Deref(taken)) = 2
    /\ taken = sent
    /\ Deref(taken)[1].Slot = 2
    /\ Deref(taken)[2].Slot = 1
    /\ payloadAttrC = << >>

\* C18: once a record has been accepted, every build request whose caller
\* passed an argument struct ends with an envelope or with the backend's
\* error, also when the accepted record has no parent beacon block root: no
\* request ends in a nil dereference.
C18_NoCrashOnNilRoot ==
    (pcB = "done" /\ ~startedEmpty /\ ~IsNil(callerArgs)) =>
        /\ result.kind \in {"envelope", "error"}
        /\ result.kind = "error" => result.err = backendOut.err

\* C19: when several tasks call Hash on the bundle before a hash is cached,
\* the body not changing while they run, all of them compute, store and
\* return the same value, whatever the interleaving of their loads,
\* computations and stores; a store into a cache that already holds a hash
\* leaves that hash in it.
C19_ConcurrentHashAgree ==
    /\ [](\A t, u \in Tasks :
             (pcH[t] \in {"store", "stored"} /\ pcH[u] \in {"store", "stored"})
                => hLocal[t] = hLocal[u])
    /\ [](\A t \in Tasks :
             (~IsNil(ret[t]) /\ ~IsNil(bundle.hash)) => ret[t] = bundle.hash)
    /\ [](\A t \in Tasks :
             (pcH[t] = "store" /\ ~IsNil(bundle.hash)) =>
                 Deref(bundle.hash) = hLocal[t])
    /\ [][ ~IsNil(bundle.hash) => bundle'.hash = bundle.hash ]_vars

\* C19 witness: two tasks both found no cached hash, both computed and both
\* stored the hash of a bundle that holds a nested bundle, and have
\* returned the same value, which is the one cached.
C19_Witness ==
    /\ pcH[1] = "stored"
    /\ pcH[2] = "stored"
    /\ Len(bundle.Body) = 2
    /\ ~IsNil(bundle.Body[1].Bundle)
    /\ ~IsNil(Deref(bundle.Body[1].Bundle).hash)
    /\ ret[1] = ret[2]
    /\ bundle.hash = ret[1]
    /\ Deref(ret[1]) = ContentHash(bundle)

\* C20: a bundle encoded with MarshalJSON and decoded with UnmarshalJSON
\* decodes without error and equals the original in blockNumber, maxBlock,
\* txs, revertingHashes and percent, whichever optional fields are set.
C20_RoundTrip ==
    pcW \in {"decoded", "failed"} =>
        /\ pcW = "decoded"
        /\ Deref(decoded).BlockNumber = sbundle.BlockNumber
        /\ Deref(decoded).MaxBlock = sbundle.MaxBlock
        /\ Deref(decoded).Txs = sbundle.Txs
        /\ Deref(decoded).RevertingHashes = sbundle.RevertingHashes
        /\ Deref(decoded).RefundPercent = sbundle.RefundPercent

====
